---- MODULE Spec2Model ----
(***************************************************************************)
(* BACnet/IP <-> MQTT gateway: the engine (invoke-id allocation, transport *)
(* lock, receive loop and its dispatch), the event channel, the Bridge     *)
(* task, the device registry and the Poller, as state machines.            *)
(*                                                                         *)
(* The bacnet_rs decoders (Npdu::decode, Apdu::decode, the service         *)
(* decoders, decode_real) are library code: a received datagram is         *)
(* described by the results those calls return on it, and the gateway's    *)
(* own branches on those results are modelled one by one.                  *)
(* BacnetIpDataLink::receive_frame reports every source as                 *)
(* DataLinkAddress::Ip, so the `_ => continue` arm of bacnet.rs:135 is not *)
(* taken; the std Mutex is never poisoned (no panic inside a critical      *)
(* section), so `dl.lock()` always ends in Ok.                             *)
(***************************************************************************)
EXTENDS Integers, Sequences, FiniteSets, Bags, TLC

(*************************** program constants *****************************)
\* mpsc::channel(100)
Capacity == 100
\* AtomicU8::new(1)
InvokeIdInit == 1
\* AtomicU8: fetch_add wraps modulo 2^8
U8Modulus == 256
\* ConfirmedServiceChoice::ReadProperty as u8
ReadPropertyU8 == 12
\* property identifier of present-value
PresentValue == 85
\* ObjectIdentifier::new(ObjectType::AnalogInput, 0)
AnalogInput0 == [object_type |-> "AnalogInput", instance |-> 0]
\* cfg.mqtt.discovery_prefix
DiscoveryPrefix == "homeassistant"

(******************************** bounds ***********************************)
\* device instances that answer on the network
MaxInstance == 2
\* events the receive loop produces in the main specification
MaxEvents == 2
\* Poller ticks in the main specification
MaxTicks == 2
\* events the receive loop produces in the receive-path specification
MaxRxEvents == 2
\* events the receive loop produces in the polling specification
MaxPollEvents == 2
\* Poller ticks in the polling specification
MaxPollTicks == 1
\* polling sweeps in the wrap-around specification (beyond 2^8)
MaxWrapTicks == 258
\* events the receive loop produces in the channel specification (beyond
\* Capacity)
MaxChanEvents == 102
\* Poller ticks in the channel specification
MaxChanTicks == 1
\* events the receive loop produces in the liveness specification
MaxLiveEvents == 2
\* events the receive loop produces in the registry specification
MaxRegistryEvents == 3
\* events the receive loop produces in the fair polling specification
\* (beyond Capacity)
MaxFairEvents == 102
\* Poller ticks in the fair polling specification
MaxFairTicks == 2
\* events the receive loop produces in the retry specification
MaxRetryEvents == 2
\* Poller ticks in the retry specification
MaxRetryTicks == 2
\* events the receive loop produces in the specification with the responder
MaxResponderEvents == 3
\* Poller ticks in the specification with the responder
MaxResponderTicks == 2

Instances == 1..MaxInstance
Addrs == {"a1", "a2"}
\* invoke-ids carried by acknowledgments arriving from the network
AckIds == {1, 2}
\* f32 present-values, in tenths (245 is 24.5)
Reals == {245}
None == [type |-> "None"]

(******************** what receive_frame() can return **********************)
\* One outcome of dl_lock.receive_frame(), with the results the decoders
\* return on the datagram:
\*   rx        "err" for Err(_), "ok" for Ok((buf, src))
\*   empty     buf.is_empty()
\*   npdu      Npdu::decode: "err", or "net" / "ok" by is_network_message()
\*   has_apdu  buf.len() > consumed
\*   apdu      Apdu::decode: "err" or the variant
\*   service   the service choice of a request (an enum)
\*   service_u8  the service choice of a ComplexAck (a raw u8)
\*   body      "ok" / "err": the service decoder's result on service_data
Outcome(rx, empty, npdu, has_apdu, apdu, service, service_u8, body, invoke_id, src, instance, vendor, prop, real_ok, value) ==
    [rx |-> rx, empty |-> empty, npdu |-> npdu, has_apdu |-> has_apdu,
     apdu |-> apdu, service |-> service, service_u8 |-> service_u8, body |-> body,
     invoke_id |-> invoke_id, src |-> src, instance |-> instance,
     vendor |-> vendor, prop |-> prop, real_ok |-> real_ok, value |-> value]

Plain(rx, empty, npdu, has_apdu, apdu, service, body, invoke_id, src) ==
    Outcome(rx, empty, npdu, has_apdu, apdu, service, 0, body, invoke_id, src, 0, 0, 0, FALSE, 0)

\* a datagram whose APDU carries a raw u8 service choice
Acked(apdu, service_u8, body, invoke_id, src, prop, real_ok, value) ==
    Outcome("ok", FALSE, "ok", TRUE, apdu, "u8", service_u8, body, invoke_id, src,
            0, 0, prop, real_ok, value)

RecvError == Plain("err", TRUE, "err", FALSE, "err", "none", "err", 0, "a1")

WhoIsFrame(src) == Plain("ok", FALSE, "ok", TRUE, "UnconfirmedRequest", "WhoIs", "ok", 0, src)

IAmFrame(i, src) ==
    Outcome("ok", FALSE, "ok", TRUE, "UnconfirmedRequest", "IAm", 0, "ok", 0, src, i, 260 + i, 0, FALSE, 0)

ReadPropertyFrame(id, src) ==
    Outcome("ok", FALSE, "ok", TRUE, "ConfirmedRequest", "ReadProperty", 0, "ok", id, src,
            0, 0, PresentValue, FALSE, 0)

AckFrame(id, src, prop, real_ok, value) ==
    Acked("ComplexAck", ReadPropertyU8, "ok", id, src, prop, real_ok, value)

\* datagrams the gateway drops: empty, undecodable, network-layer, or with a
\* PDU type / service choice the dispatch has no arm for
Garbage ==
    { Plain("ok", TRUE, "err", FALSE, "err", "none", "err", 0, "a1"),
      Plain("ok", FALSE, "err", FALSE, "err", "none", "err", 0, "a1"),
      Plain("ok", FALSE, "net", TRUE, "UnconfirmedRequest", "IAm", "ok", 0, "a1"),
      Plain("ok", FALSE, "ok", FALSE, "err", "none", "err", 0, "a1"),
      Plain("ok", FALSE, "ok", TRUE, "err", "none", "err", 0, "a1"),
      Plain("ok", FALSE, "ok", TRUE, "UnconfirmedRequest", "WhoIs", "err", 0, "a1"),
      Plain("ok", FALSE, "ok", TRUE, "UnconfirmedRequest", "IAm", "err", 0, "a1"),
      Plain("ok", FALSE, "ok", TRUE, "UnconfirmedRequest", "IHave", "ok", 0, "a1"),
      Plain("ok", FALSE, "ok", TRUE, "ConfirmedRequest", "WriteProperty", "ok", 1, "a1"),
      Acked("ComplexAck", ReadPropertyU8, "err", 1, "a1", 0, FALSE, 0),
      Acked("ComplexAck", ReadPropertyU8 + 2, "ok", 1, "a1", PresentValue, TRUE, 245),
      Acked("SimpleAck", ReadPropertyU8, "ok", 1, "a1", 0, FALSE, 0) }

DiscoveryFrames == { IAmFrame(i, a) : i \in Instances, a \in Addrs }

AckFrames ==
    { AckFrame(id, a, PresentValue, TRUE, v) : id \in AckIds, a \in Addrs, v \in Reals }
    \cup { AckFrame(1, "a1", PresentValue, FALSE, 0),
           AckFrame(1, "a1", PresentValue - 8, TRUE, 245) }

\* the main specification: anything may arrive on the open UDP socket
Frames ==
    {RecvError} \cup Garbage \cup DiscoveryFrames \cup AckFrames
    \cup {WhoIsFrame("a2"), ReadPropertyFrame(2, "a2")}

(************************ the receive loop's dispatch ***********************)
\* BacnetEvent; n is the position of the frame in the order of arrival
Event(type, f, n) ==
    [type |-> type, invoke_id |-> f.invoke_id, src |-> f.src,
     instance |-> f.instance, vendor |-> f.vendor, prop |-> f.prop,
     real_ok |-> f.real_ok, value |-> f.value, n |-> n]

\* faulty variant: the WhoIs and IAm arms build each other's event
EventOptSwapped(f, n) ==
    CASE f.apdu = "UnconfirmedRequest" ->
           (CASE f.service = "WhoIs" ->
                   IF f.body = "ok" THEN Event("IAm", f, n) ELSE None
              [] f.service = "IAm" ->
                   IF f.body = "ok" THEN Event("WhoIs", f, n) ELSE None
              [] OTHER -> None)
      [] f.apdu = "ComplexAck" ->
           IF f.service_u8 = ReadPropertyU8
           THEN (IF f.body = "ok" THEN Event("ReadPropertyAck", f, n) ELSE None)
           ELSE None
      [] OTHER -> None

\* event_opt of bacnet.rs:138-167
EventOpt(f, n) ==
    CASE f.apdu = "UnconfirmedRequest" ->
           (CASE f.service = "WhoIs" ->
                   IF f.body = "ok" THEN Event("WhoIs", f, n) ELSE None
              [] f.service = "IAm" ->
                   IF f.body = "ok" THEN Event("IAm", f, n) ELSE None
              [] OTHER -> None)
      [] f.apdu = "ConfirmedRequest" ->
           (CASE f.service = "ReadProperty" -> None
              [] OTHER -> None)
      [] f.apdu = "ComplexAck" ->
           IF f.service_u8 = ReadPropertyU8
           THEN (IF f.body = "ok" THEN Event("ReadPropertyAck", f, n) ELSE None)
           ELSE None
      [] OTHER -> None

\* faulty variant: the is_network_message() test is left out
DispatchNetworkMessages(f, n) ==
    IF f.rx = "ok" /\ ~f.empty /\ f.npdu # "err" /\ f.has_apdu /\ f.apdu # "err"
    THEN EventOpt(f, n)
    ELSE None

\* the nest of `if let Ok(..)` / `if` of bacnet.rs:126-132 around the dispatch
Dispatch(f, n) ==
    IF f.rx = "ok"
    THEN IF ~f.empty
         THEN IF f.npdu # "err"
              THEN IF f.has_apdu /\ f.npdu # "net"
                   THEN IF f.apdu # "err" THEN EventOpt(f, n) ELSE None
                   ELSE None
              ELSE None
         ELSE None
    ELSE None


(********************************* state ***********************************)
VARIABLES
    main_pc,      \* main(): "discover", "start", "serving", "exited"
    rx_pc,        \* receive loop: "unspawned", "lock", "receive", "send", "sleep", "done"
    bridge_pc,    \* Bridge task: "unspawned", "recv", "upsert", "pub_discovery",
                  \*   "pub_state", "lookup", "pub_value", "gone"
    poll_pc,      \* Poller task: "unspawned", "tick", "alloc", "send", "gone"
    invoke_id,    \* BacnetEngine.invoke_id (AtomicU8)
    datalink,     \* holder of the Mutex around the datalink: "free" or "rx"
    chan,         \* the mpsc channel's queue (tx -> bacnet_rx)
    rx_closed,    \* bacnet_rx has been dropped
    event_opt,    \* the event the receive loop is sending, or None
    discovered_devices,  \* the registry: instance -> address
    registry_lock,  \* guards of the RwLock around the registry that are alive
    cur,          \* the event the Bridge took last
    dev_id,       \* device_id_opt of the Bridge's reverse lookup (0 for None)
    devices,      \* the Poller's snapshot, in its iteration order
    poll_i,       \* position of the Poller in devices
    cur_id,       \* invoke_id local of the read_property call in progress
    \* history
    produced,     \* events the receive loop handed to blocking_send, in order
    delivered,    \* events bacnet_rx.recv() returned, in order
    pub_log,      \* publish attempts of the MQTT client, in order
    last_pub_ok,  \* result of the last publish attempt
    sent_log,     \* datagrams the gateway sent, in order
    outstanding,  \* bag of invoke-ids sent and not yet acknowledged
    tick_calls,   \* read_property calls of the current sweep, in order
    nticks        \* sweeps over a non-empty snapshot so far

vars == <<main_pc, rx_pc, bridge_pc, poll_pc, invoke_id, datalink, chan, rx_closed,
          event_opt, discovered_devices, cur, dev_id, devices, poll_i, cur_id,
          produced, delivered, pub_log, last_pub_ok, sent_log,
          outstanding, tick_calls, nticks, registry_lock>>

engine_vars == <<invoke_id, datalink>>
rx_vars == <<rx_pc, chan, event_opt, produced>>
bridge_vars == <<bridge_pc, cur, dev_id, delivered, pub_log, last_pub_ok>>
poll_vars == <<poll_pc, devices, poll_i, cur_id, tick_calls, nticks>>

EmptyRegistry == [i \in {} |-> "a1"]

Init ==
    /\ main_pc = "discover"
    /\ rx_pc = "unspawned"
    /\ bridge_pc = "unspawned"
    /\ poll_pc = "unspawned"
    /\ invoke_id = InvokeIdInit
    /\ datalink = "free"
    /\ chan = <<>>
    /\ rx_closed = FALSE
    /\ event_opt = None
    /\ discovered_devices = EmptyRegistry
    /\ registry_lock = {}
    /\ cur = None
    /\ dev_id = 0
    /\ devices = <<>>
    /\ poll_i = 0
    /\ cur_id = 0
    /\ produced = <<>>
    /\ delivered = <<>>
    /\ pub_log = <<>>
    /\ last_pub_ok = TRUE
    /\ sent_log = <<>>
    /\ outstanding = EmptyBag
    /\ tick_calls = <<>>
    /\ nticks = 0

(******************************* the engine ********************************)
\* faulty variant: the counter is read (load) and never advanced
FetchAddStuck(v) == v

\* the value self.invoke_id holds after fetch_add(1, Relaxed)
FetchAdd(v) == (v + 1) % U8Modulus

\* the datagram discover() builds: NPDU (expecting_reply = false) + Who-Is
WhoIsPacket ==
    [dest |-> "broadcast", expecting_reply |-> FALSE, priority |-> 0,
     apdu |-> "UnconfirmedRequest", service |-> "WhoIs", invoke_id |-> 0,
     object |-> None, property |-> 0]

\* the datagram read_property() builds: NPDU (expecting_reply = true) +
\* ConfirmedRequest(ReadProperty)
ReadPropertyPacket(target, object_identifier, property_identifier, id) ==
    [dest |-> target, expecting_reply |-> TRUE, priority |-> 0,
     apdu |-> "ConfirmedRequest", service |-> "ReadProperty", invoke_id |-> id,
     object |-> object_identifier, property |-> property_identifier]

\* faulty variant: discover() takes an invoke-id, as a confirmed request does
DiscoverTakingInvokeId(send_results) ==
    /\ main_pc = "discover"
    /\ datalink = "free"
    /\ \E ok \in send_results :
         sent_log' = IF ok THEN Append(sent_log, WhoIsPacket) ELSE sent_log
    /\ invoke_id' = FetchAdd(invoke_id)
    /\ main_pc' = "start"
    /\ UNCHANGED <<registry_lock, datalink, rx_vars, bridge_vars, poll_vars, rx_closed,
                   discovered_devices, outstanding>>

\* discover(), called once by main() before the receive loop exists; a send
\* error is logged by main() and startup goes on
Discover(send_results) ==
    /\ main_pc = "discover"
    /\ datalink = "free"
    /\ \E ok \in send_results :
         sent_log' = IF ok THEN Append(sent_log, WhoIsPacket) ELSE sent_log
    /\ main_pc' = "start"
    /\ UNCHANGED <<registry_lock, engine_vars, rx_vars, bridge_vars, poll_vars, rx_closed,
                   discovered_devices, outstanding>>

\* start() spawns the receive loop; main() then spawns the Bridge and the Poller
Start ==
    /\ main_pc = "start"
    /\ main_pc' = "serving"
    /\ rx_pc' = "lock"
    /\ bridge_pc' = "recv"
    /\ poll_pc' = "tick"
    /\ UNCHANGED <<registry_lock, engine_vars, chan, rx_closed, event_opt, discovered_devices, cur,
                   dev_id, devices, poll_i, cur_id, produced,
                   delivered, pub_log, last_pub_ok, sent_log, outstanding,
                   tick_calls, nticks>>

\* main() returns (bind or serve error of the web listener): the runtime drops
\* the Bridge (and with it bacnet_rx) and the Poller at their next await; the
\* blocking receive thread is not cancelled
MainExit ==
    /\ main_pc = "serving"
    /\ main_pc' = "exited"
    /\ rx_closed' = TRUE
    /\ bridge_pc' = "gone"
    /\ poll_pc' = IF poll_pc = "tick" THEN "gone" ELSE poll_pc
    /\ UNCHANGED <<registry_lock, engine_vars, rx_vars, cur, dev_id, delivered, pub_log,
                   last_pub_ok, discovered_devices, devices, poll_i, cur_id,
                   tick_calls, nticks, sent_log, outstanding>>

(**************************** the receive loop ******************************)
\* bag b without any copy of id
Acknowledge(b, id) == [x \in DOMAIN b \ {id} |-> b[x]]

\* `if let Ok(mut dl_lock) = dl.lock()`
RxLock ==
    /\ rx_pc = "lock"
    /\ datalink = "free"
    /\ datalink' = "rx"
    /\ rx_pc' = "receive"
    /\ UNCHANGED <<registry_lock, main_pc, bridge_vars, poll_vars, invoke_id, chan, rx_closed,
                   event_opt, discovered_devices, produced, sent_log, outstanding>>

\* dl_lock.receive_frame() returned f, and the decoding of it; with an event
\* the loop goes on to blocking_send still inside the lock's scope, without
\* one the guard is dropped and the loop sleeps. An event is tagged with its
\* position among the events produced.
RxReceiveFrame(f, max_events) ==
    /\ rx_pc = "receive"
    /\ LET ev == Dispatch(f, Len(produced) + 1)
       IN  IF ev.type # "None"
           THEN /\ Len(produced) < max_events
                /\ event_opt' = ev
                /\ produced' = Append(produced, ev)
                /\ rx_pc' = "send"
                /\ datalink' = datalink
                /\ outstanding' = IF ev.type = "ReadPropertyAck"
                                  THEN Acknowledge(outstanding, ev.invoke_id)
                                  ELSE outstanding
           ELSE /\ event_opt' = None
                /\ produced' = produced
                /\ rx_pc' = "sleep"
                /\ datalink' = "free"
                /\ outstanding' = outstanding
    /\ UNCHANGED <<registry_lock, main_pc, bridge_vars, poll_vars, invoke_id, chan, rx_closed,
                   discovered_devices, sent_log>>

\* one receive attempt, on whatever the socket holds
RxReceive(from, max_events) == \E f \in from : RxReceiveFrame(f, max_events)

\* faulty variant: the result of blocking_send is ignored (no `break`)
RxSendIgnoresClosed ==
    /\ rx_pc = "send"
    /\ IF rx_closed
       THEN chan' = chan
       ELSE Len(chan) < Capacity /\ chan' = Append(chan, event_opt)
    /\ rx_pc' = "sleep"
    /\ event_opt' = None
    /\ datalink' = "free"
    /\ UNCHANGED <<registry_lock, main_pc, bridge_vars, poll_vars, invoke_id, rx_closed,
                   discovered_devices, produced, sent_log, outstanding>>

\* faulty variant: try_send instead of blocking_send, a full channel drops
\* the event
RxSendDropsWhenFull ==
    /\ rx_pc = "send"
    /\ IF rx_closed
       THEN rx_pc' = "done" /\ chan' = chan
       ELSE /\ chan' = IF Len(chan) < Capacity THEN Append(chan, event_opt) ELSE chan
            /\ rx_pc' = "sleep"
    /\ event_opt' = None
    /\ datalink' = "free"
    /\ UNCHANGED <<registry_lock, main_pc, bridge_vars, poll_vars, invoke_id, rx_closed,
                   discovered_devices, produced, sent_log, outstanding>>

\* faulty variant: the guard of the datalink outlives the iteration
RxSendKeepsLock ==
    /\ rx_pc = "send"
    /\ IF rx_closed
       THEN /\ rx_pc' = "done"
            /\ chan' = chan
       ELSE /\ Len(chan) < Capacity
            /\ chan' = Append(chan, event_opt)
            /\ rx_pc' = "sleep"
    /\ event_opt' = None
    /\ datalink' = datalink
    /\ UNCHANGED <<registry_lock, main_pc, bridge_vars, poll_vars, invoke_id, rx_closed,
                   discovered_devices, produced, sent_log, outstanding>>

\* tx.blocking_send(event): waits while the channel is full, fails once the
\* receiver is dropped (`break`: the closure ends and drops the guard)
RxSend ==
    /\ rx_pc = "send"
    /\ IF rx_closed
       THEN /\ rx_pc' = "done"
            /\ chan' = chan
       ELSE /\ Len(chan) < Capacity
            /\ chan' = Append(chan, event_opt)
            /\ rx_pc' = "sleep"
    /\ event_opt' = None
    /\ datalink' = "free"
    /\ UNCHANGED <<registry_lock, main_pc, bridge_vars, poll_vars, invoke_id, rx_closed,
                   discovered_devices, produced, sent_log, outstanding>>

\* std::thread::sleep(10 ms), then the next iteration
RxSleep ==
    /\ rx_pc = "sleep"
    /\ rx_pc' = "lock"
    /\ UNCHANGED <<registry_lock, main_pc, bridge_vars, poll_vars, engine_vars, chan, rx_closed,
                   event_opt, discovered_devices, produced, sent_log, outstanding>>


(******************************* the Bridge ********************************)
\* format!("bacnet_{}", instance)
UniqueId(instance) == <<"bacnet_", instance>>

\* format!("{}/sensor/{}/state", mqtt_prefix, unique_id), as path segments
StateTopic(unique_id) == <<DiscoveryPrefix, "sensor", unique_id, "state">>

\* format!("{}/{}/{}/config", self.config.discovery_prefix, component, unique_id)
ConfigTopic(component, unique_id) == <<DiscoveryPrefix, component, unique_id, "config">>

\* f32::to_string of a value given in tenths (non-negative)
F32ToString(v) ==
    IF v % 10 = 0 THEN <<v \div 10>> ELSE <<v \div 10, ".", v % 10>>

\* faulty variant: the identity is built from the vendor identifier
HaDiscoveryPayloadByVendor(iam) ==
    [name |-> <<"BACnet Device ", iam.instance>>,
     state_topic |-> StateTopic(UniqueId(iam.vendor)),
     command_topic |-> None,
     unique_id |-> UniqueId(iam.vendor),
     device |-> [identifiers |-> <<UniqueId(iam.vendor), UniqueId(iam.instance)>>,
                 name |-> <<"BACnet Device ", iam.instance>>,
                 manufacturer |-> <<"Vendor ID ", iam.vendor>>,
                 model |-> "Generic BACnet Device"]]

\* mqtt::HaDiscoveryPayload built for an IAm
HaDiscoveryPayload(iam) ==
    [name |-> <<"BACnet Device ", iam.instance>>,
     state_topic |-> StateTopic(UniqueId(iam.instance)),
     command_topic |-> None,
     unique_id |-> UniqueId(iam.instance),
     device |-> [identifiers |-> <<UniqueId(iam.instance)>>,
                 name |-> <<"BACnet Device ", iam.instance>>,
                 manufacturer |-> <<"Vendor ID ", iam.vendor>>,
                 model |-> "Generic BACnet Device"]]

\* self.client.publish(topic, QoS::AtLeastOnce, true, payload), for the event
\* of arrival position n
Publish(topic, payload, n) ==
    [topic |-> topic, qos |-> "AtLeastOnce", retain |-> TRUE, payload |-> payload,
     cause |-> n]

\* faulty variant: entry(instance).or_insert(addr), the first address stays
UpsertKeepsFirst(r, instance, addr) ==
    [i \in DOMAIN r \cup {instance} |-> IF i \in DOMAIN r THEN r[i] ELSE addr]

\* faulty variant: the registry is replaced by the one entry
UpsertEvicting(r, instance, addr) == [i \in {instance} |-> addr]

\* faulty variant: the guard is bound to a variable of the task and lives on
GuardKept(held, task) == held \cup {task}

\* the guards alive after a statement that takes a guard of the registry's
\* RwLock as a temporary (read().await.clone(), write().await.insert(..),
\* for .. in read().await.iter() {..}): the guard is dropped with the statement
TemporaryGuard(held, task) == (held \cup {task}) \ {task}

\* HashMap::insert
Upsert(r, instance, addr) ==
    [i \in DOMAIN r \cup {instance} |-> IF i = instance THEN addr ELSE r[i]]

\* faulty variant: the IAm arm publishes without the registry insert
BridgeArmSkipsUpsert(e) ==
    CASE e.type = "IAm" -> "pub_discovery"
      [] e.type = "ReadPropertyAck" ->
           IF e.prop = PresentValue /\ e.real_ok THEN "lookup" ELSE "recv"
      [] OTHER -> "recv"

\* faulty variant: every acknowledgment is taken for a REAL present-value
BridgeArmIgnoresProperty(e) ==
    CASE e.type = "IAm" -> "upsert"
      [] e.type = "ReadPropertyAck" -> "lookup"
      [] OTHER -> "recv"

\* faulty variant: a Who-Is is answered by a publish
BridgeArmAnswersWhoIs(e) ==
    CASE e.type = "IAm" -> "upsert"
      [] e.type = "WhoIs" -> "pub_state"
      [] e.type = "ReadPropertyAck" ->
           IF e.prop = PresentValue /\ e.real_ok THEN "lookup" ELSE "recv"
      [] OTHER -> "recv"

\* faulty variant: the source of an acknowledgment is registered
BridgeArmAckUpserts(e) ==
    CASE e.type = "IAm" -> "upsert"
      [] e.type = "ReadPropertyAck" -> "upsert"
      [] OTHER -> "recv"

\* faulty variant: an acknowledgment is bridged only if its invoke-id is one
\* of a request that is outstanding
BridgeArmSolicitedOnly(e) ==
    CASE e.type = "IAm" -> "upsert"
      [] e.type = "ReadPropertyAck" ->
           IF e.prop = PresentValue /\ e.real_ok /\ BagIn(e.invoke_id, outstanding)
           THEN "lookup" ELSE "recv"
      [] OTHER -> "recv"

\* where the match of main.rs:46 takes the Bridge for an event
BridgeArm(e) ==
    CASE e.type = "IAm" -> "upsert"
      [] e.type = "ReadPropertyAck" ->
           IF e.prop = PresentValue /\ e.real_ok THEN "lookup" ELSE "recv"
      [] OTHER -> "recv"

\* bacnet_rx.recv().await returned Some(event); the WhoIs and ReadProperty
\* arms, and an acknowledgment that is not a REAL present-value, only log
BridgeRecv ==
    /\ bridge_pc = "recv"
    /\ chan # <<>>
    /\ cur' = Head(chan)
    /\ chan' = Tail(chan)
    /\ delivered' = Append(delivered, Head(chan))
    /\ bridge_pc' = BridgeArm(Head(chan))
    /\ UNCHANGED <<registry_lock, main_pc, rx_pc, poll_vars, engine_vars, rx_closed, event_opt,
                   discovered_devices, dev_id, produced, pub_log,
                   last_pub_ok, sent_log, outstanding>>

\* faulty variant: the device is registered and never announced
BridgeUpsertWithoutAnnouncing ==
    /\ bridge_pc = "upsert"
    /\ registry_lock = {}
    /\ registry_lock' = TemporaryGuard(registry_lock, "bridge_write")
    /\ discovered_devices' = Upsert(discovered_devices, cur.instance, cur.src)
    /\ bridge_pc' = "recv"
    /\ UNCHANGED <<main_pc, rx_vars, poll_vars, engine_vars, rx_closed, cur, dev_id,
                   delivered, pub_log, last_pub_ok, sent_log, outstanding>>

\* bridge_devices.write().await.insert(instance, src)
BridgeUpsert ==
    /\ bridge_pc = "upsert"
    /\ discovered_devices' = Upsert(discovered_devices, cur.instance, cur.src)
    /\ bridge_pc' = "pub_discovery"
    /\ registry_lock = {}
    /\ registry_lock' = TemporaryGuard(registry_lock, "bridge_write")
    /\ UNCHANGED <<main_pc, rx_vars, poll_vars, engine_vars, rx_closed, cur, dev_id,
                   delivered, pub_log, last_pub_ok, sent_log, outstanding>>

\* faulty variant: a failed discovery publish is attempted again
BridgePublishDiscoveryRetrying(publish_results) ==
    /\ bridge_pc = "pub_discovery"
    /\ pub_log' = Append(pub_log,
                         Publish(ConfigTopic("sensor", UniqueId(cur.instance)),
                                 HaDiscoveryPayload(cur), cur.n))
    /\ last_pub_ok' \in publish_results
    /\ bridge_pc' = IF last_pub_ok' THEN "pub_state" ELSE "pub_discovery"
    /\ UNCHANGED <<registry_lock, main_pc, rx_vars, poll_vars, engine_vars, rx_closed,
                   discovered_devices, cur, dev_id, delivered, sent_log, outstanding>>

\* bridge_mqtt.publish_discovery("sensor", &unique_id, &payload).await
BridgePublishDiscovery(publish_results) ==
    /\ bridge_pc = "pub_discovery"
    /\ pub_log' = Append(pub_log,
                         Publish(ConfigTopic("sensor", UniqueId(cur.instance)),
                                 HaDiscoveryPayload(cur), cur.n))
    /\ last_pub_ok' \in publish_results
    /\ bridge_pc' = "pub_state"
    /\ UNCHANGED <<registry_lock, main_pc, rx_vars, poll_vars, engine_vars, rx_closed,
                   discovered_devices, cur, dev_id, delivered, sent_log, outstanding>>

\* bridge_mqtt.publish_state(&payload.state_topic, "online").await
BridgePublishOnline(publish_results) ==
    /\ bridge_pc = "pub_state"
    /\ pub_log' = Append(pub_log,
                         Publish(HaDiscoveryPayload(cur).state_topic, "online", cur.n))
    /\ last_pub_ok' \in publish_results
    /\ bridge_pc' = "recv"
    /\ UNCHANGED <<registry_lock, main_pc, rx_vars, poll_vars, engine_vars, rx_closed,
                   discovered_devices, cur, dev_id, delivered, sent_log, outstanding>>

\* faulty variant: the scan stops at the first entry, whatever its address
ReverseLookupAny(r, src) == DOMAIN r

\* the entries at which the scan `if *addr == src` of main.rs:86-90 can stop
ReverseLookup(r, src) == {i \in DOMAIN r : r[i] = src}

\* the reverse lookup of main.rs:85-91: the first entry, in the HashMap's
\* iteration order, whose address is the acknowledgment's source
BridgeLookup ==
    /\ bridge_pc = "lookup"
    /\ LET found == ReverseLookup(discovered_devices, cur.src)
       IN  IF found = {}
           THEN dev_id' = 0 /\ bridge_pc' = "recv"
           ELSE dev_id' \in found /\ bridge_pc' = "pub_value"
    /\ "bridge_write" \notin registry_lock
    /\ registry_lock' = TemporaryGuard(registry_lock, "bridge_read")
    /\ UNCHANGED <<main_pc, rx_vars, poll_vars, engine_vars, rx_closed,
                   discovered_devices, cur, delivered, pub_log, last_pub_ok,
                   sent_log, outstanding>>

\* src.ip() of an address, as the 32-bit number it is (10.0.0.1, 10.0.0.2)
IpOf(a) == IF a = "a1" THEN 167772161 ELSE 167772162

\* faulty variant: the state topic of main.rs:81-82, keyed by the source
\* address, is the one published to
BridgePublishValueByAddress(publish_results) ==
    /\ bridge_pc = "pub_value"
    /\ pub_log' = Append(pub_log,
                         Publish(StateTopic(UniqueId(IpOf(cur.src))),
                                 F32ToString(cur.value), cur.n))
    /\ last_pub_ok' \in publish_results
    /\ bridge_pc' = "recv"
    /\ UNCHANGED <<registry_lock, main_pc, rx_vars, poll_vars, engine_vars, rx_closed,
                   discovered_devices, cur, dev_id, delivered, sent_log, outstanding>>

\* bridge_mqtt.publish_state(&state_topic, &val.to_string()).await
BridgePublishValue(publish_results) ==
    /\ bridge_pc = "pub_value"
    /\ pub_log' = Append(pub_log,
                         Publish(StateTopic(UniqueId(dev_id)), F32ToString(cur.value), cur.n))
    /\ last_pub_ok' \in publish_results
    /\ bridge_pc' = "recv"
    /\ UNCHANGED <<registry_lock, main_pc, rx_vars, poll_vars, engine_vars, rx_closed,
                   discovered_devices, cur, dev_id, delivered, sent_log, outstanding>>

(******************************* the Poller ********************************)
\* the orders in which a HashMap with the entries of r may be iterated
IterationOrders(r) ==
    LET n == Cardinality(DOMAIN r)
    IN  { [k \in 1..n |-> <<p[k], r[p[k]]>>] :
            p \in { q \in [1..n -> DOMAIN r] : \A a, b \in 1..n : a # b => q[a] # q[b] } }

\* where the Poller goes after the call at position i of its snapshot
AfterCall(i, snapshot) == IF i < Len(snapshot) THEN "alloc" ELSE "tick"

\* faulty variant: the sweep is abandoned at the first failed send
AfterResultAborting(ok, next) == IF ok THEN next ELSE "tick"

\* `if let Err(e) = poll_bacnet.read_property(..) { error!(..) }`: the result
\* is logged and the loop goes where it would have gone
AfterResult(ok, next) == next

\* interval.tick().await, then poll_devices.read().await.clone(); a sweep
\* over an empty snapshot calls nothing
PollTick(max_ticks) ==
    /\ poll_pc = "tick"
    /\ main_pc = "serving"
    /\ discovered_devices # EmptyRegistry => nticks < max_ticks
    /\ devices' \in IterationOrders(discovered_devices)
    /\ tick_calls' = <<>>
    /\ IF discovered_devices = EmptyRegistry
       THEN poll_pc' = "tick" /\ poll_i' = 0 /\ nticks' = nticks
       ELSE poll_pc' = "alloc" /\ poll_i' = 1 /\ nticks' = nticks + 1
    /\ "bridge_write" \notin registry_lock
    /\ registry_lock' = TemporaryGuard(registry_lock, "poller")
    /\ UNCHANGED <<main_pc, rx_vars, bridge_vars, engine_vars, rx_closed,
                   discovered_devices, cur_id, sent_log, outstanding>>

\* read_property(addr, ai_0, 85) up to the packet: the invoke-id is taken with
\* fetch_add(1), which returns the value before the addition
PollAlloc ==
    /\ poll_pc = "alloc"
    /\ cur_id' = invoke_id
    /\ invoke_id' = FetchAdd(invoke_id)
    /\ tick_calls' = Append(tick_calls,
                            [target |-> devices[poll_i][2], object |-> AnalogInput0,
                             property |-> PresentValue, invoke_id |-> invoke_id])
    /\ poll_pc' = "send"
    /\ UNCHANGED <<registry_lock, main_pc, rx_vars, bridge_vars, datalink, rx_closed,
                   discovered_devices, devices, poll_i, nticks, sent_log, outstanding>>

\* the rest of read_property: self.datalink.lock(), send_unicast_npdu, unlock;
\* an Err of the send is logged by the Poller, which goes on with the sweep
PollSend(send_results) ==
    /\ poll_pc = "send"
    /\ datalink = "free"
    /\ \E ok \in send_results :
         /\ sent_log' = IF ok
                        THEN Append(sent_log,
                                    ReadPropertyPacket(devices[poll_i][2], AnalogInput0,
                                                       PresentValue, cur_id))
                        ELSE sent_log
         /\ outstanding' = IF ok THEN outstanding (+) SetToBag({cur_id}) ELSE outstanding
         /\ poll_pc' = IF /\ main_pc = "exited"
                             /\ AfterResult(ok, AfterCall(poll_i, devices)) = "tick"
                          THEN "gone"
                          ELSE AfterResult(ok, AfterCall(poll_i, devices))
    /\ poll_i' = poll_i + 1
    /\ UNCHANGED <<registry_lock, main_pc, rx_vars, bridge_vars, engine_vars, rx_closed,
                   discovered_devices, devices, cur_id, tick_calls, nticks>>

(***************************** specifications ******************************)
\* the gateway on an open UDP port: any datagram may arrive, sends and
\* publishes may fail
Next ==
    \/ Discover(BOOLEAN)
    \/ Start
    \/ MainExit
    \/ RxLock
    \/ RxReceive(Frames, MaxEvents)
    \/ RxSend
    \/ RxSleep
    \/ BridgeRecv
    \/ BridgeUpsert
    \/ BridgePublishDiscovery(BOOLEAN)
    \/ BridgePublishOnline(BOOLEAN)
    \/ BridgeLookup
    \/ BridgePublishValue(BOOLEAN)
    \/ PollTick(MaxTicks)
    \/ PollAlloc
    \/ PollSend(BOOLEAN)

Spec == Init /\ [][Next]_vars


\* the receive path and the Bridge on an open UDP port, between two ticks
\* of the Poller: any datagram may arrive, publishes may fail
NextRx ==
    \/ Discover({TRUE})
    \/ Start
    \/ MainExit
    \/ RxLock
    \/ RxReceive(Frames, MaxRxEvents)
    \/ RxSend
    \/ RxSleep
    \/ BridgeRecv
    \/ BridgeUpsert
    \/ BridgePublishDiscovery(BOOLEAN)
    \/ BridgePublishOnline(BOOLEAN)
    \/ BridgeLookup
    \/ BridgePublishValue(BOOLEAN)

SpecRx == Init /\ [][NextRx]_vars

\* discovery and polling while main() serves: devices announce themselves
\* (and move), the Poller sweeps, its sends may fail; the broker is healthy
NextPoll ==
    \/ Discover({TRUE})
    \/ Start
    \/ RxLock
    \/ RxReceive({RecvError} \cup DiscoveryFrames, MaxPollEvents)
    \/ RxSend
    \/ RxSleep
    \/ BridgeRecv
    \/ BridgeUpsert
    \/ BridgePublishDiscovery({TRUE})
    \/ BridgePublishOnline({TRUE})
    \/ PollTick(MaxPollTicks)
    \/ PollAlloc
    \/ PollSend(BOOLEAN)

SpecPoll == Init /\ [][NextPoll]_vars

\* a device that announced itself once and never answers, polled for longer
\* than the invoke-id counter is wide; the network and the broker are healthy
NextWrap ==
    \/ Discover({TRUE})
    \/ Start
    \/ RxLock
    \/ RxReceive({RecvError, IAmFrame(1, "a1")}, 1)
    \/ RxSend
    \/ RxSleep
    \/ BridgeRecv
    \/ BridgeUpsert
    \/ BridgePublishDiscovery({TRUE})
    \/ BridgePublishOnline({TRUE})
    \/ PollTick(MaxWrapTicks)
    \/ PollAlloc
    \/ PollSend({TRUE})

SpecWrap == Init /\ [][NextWrap]_vars

\* a device announces itself first, then Who-Is traffic of other clients
\* arrives faster than the Bridge takes it: the channel fills
NextChan ==
    \/ Discover({TRUE})
    \/ Start
    \/ MainExit
    \/ RxLock
    \/ RxReceive({IAmFrame(1, "a1")}, 1)
    \/ RxReceive({WhoIsFrame("a2")}, MaxChanEvents)
    \/ RxSend
    \/ RxSleep
    \/ BridgeRecv
    \/ BridgeUpsert
    \/ BridgePublishDiscovery({TRUE})
    \/ BridgePublishOnline({TRUE})
    \/ PollTick(MaxChanTicks)
    \/ PollAlloc
    \/ PollSend({TRUE})

SpecChan == Init /\ [][NextChan]_vars

\* the receive thread under its scheduler: a dedicated blocking thread runs
\* whenever it can, and receive_frame() returns (a datagram or an error)
LiveFrames == {RecvError, WhoIsFrame("a2"), IAmFrame(1, "a1")}

NextLive ==
    \/ Discover({TRUE})
    \/ Start
    \/ MainExit
    \/ RxLock
    \/ RxReceive(LiveFrames, MaxLiveEvents)
    \/ RxSend
    \/ RxSleep
    \/ BridgeRecv
    \/ BridgeUpsert
    \/ BridgePublishDiscovery({TRUE})
    \/ BridgePublishOnline({TRUE})
    \/ PollTick(1)
    \/ PollAlloc
    \/ PollSend({TRUE})

SpecLive ==
    /\ Init
    /\ [][NextLive]_vars
    /\ WF_vars(RxLock)
    /\ WF_vars(RxReceive(LiveFrames, MaxLiveEvents))
    /\ WF_vars(RxSend)
    /\ WF_vars(RxSleep)

\* the registry and everything that touches it: two devices announce
\* themselves, one of them moves to the other's address, a peer asks Who-Is,
\* a polled device answers, the Poller sweeps once; the initial Who-Is may
\* fail to go out
RegistryFrames ==
    {RecvError, WhoIsFrame("a1"), AckFrame(1, "a1", PresentValue, TRUE, 245),
     IAmFrame(1, "a1"), IAmFrame(1, "a2"), IAmFrame(2, "a2")}

NextRegistry ==
    \/ Discover(BOOLEAN)
    \/ Start
    \/ RxLock
    \/ RxReceive(RegistryFrames, MaxRegistryEvents)
    \/ RxSend
    \/ RxSleep
    \/ BridgeRecv
    \/ BridgeUpsert
    \/ BridgePublishDiscovery({TRUE})
    \/ BridgePublishOnline({TRUE})
    \/ BridgeLookup
    \/ BridgePublishValue({TRUE})
    \/ PollTick(1)
    \/ PollAlloc
    \/ PollSend({TRUE})

SpecRegistry == Init /\ [][NextRegistry]_vars

\* polling over an unreliable link: two devices announce themselves, the
\* Poller sweeps repeatedly and any of its sends may fail
RetryFrames == {RecvError, IAmFrame(1, "a1"), IAmFrame(2, "a2")}

NextRetry ==
    \/ Discover({TRUE})
    \/ Start
    \/ RxLock
    \/ RxReceive(RetryFrames, MaxRetryEvents)
    \/ RxSend
    \/ RxSleep
    \/ BridgeRecv
    \/ BridgeUpsert
    \/ BridgePublishDiscovery({TRUE})
    \/ BridgePublishOnline({TRUE})
    \/ PollTick(MaxRetryTicks)
    \/ PollAlloc
    \/ PollSend(BOOLEAN)

SpecRetry == Init /\ [][NextRetry]_vars

\* polling under fair scheduling: a device announces itself, after which
\* either nothing arrives on the socket (every receive attempt ends in an
\* error) or Who-Is traffic fills the event channel; the link and the broker
\* are healthy
FairReceive ==
    \/ RxReceive({RecvError, IAmFrame(1, "a1")}, 1)
    \/ produced # <<>> /\ RxReceive({RecvError, WhoIsFrame("a2")}, MaxFairEvents)

NextFair ==
    \/ Discover({TRUE})
    \/ Start
    \/ RxLock
    \/ FairReceive
    \/ RxSend
    \/ RxSleep
    \/ BridgeRecv
    \/ BridgeUpsert
    \/ BridgePublishDiscovery({TRUE})
    \/ BridgePublishOnline({TRUE})
    \/ PollTick(MaxFairTicks)
    \/ PollAlloc
    \/ PollSend({TRUE})

\* receive_frame() returns and blocking_send goes through once there is
\* room; the Bridge task and the Poller task run whenever they can; the
\* Poller, waiting in datalink.lock(), gets the lock when the receive loop
\* releases it for its 10 ms sleep
SpecFair ==
    /\ Init
    /\ [][NextFair]_vars
    /\ WF_vars(FairReceive)
    /\ WF_vars(RxSend)
    /\ WF_vars(BridgeRecv)
    /\ WF_vars(BridgeUpsert)
    /\ WF_vars(BridgePublishDiscovery({TRUE}))
    /\ WF_vars(BridgePublishOnline({TRUE}))
    /\ WF_vars(PollAlloc)
    /\ SF_vars(PollSend({TRUE}))


(***************************** invoke-ids: C1, C2 ***************************)
\* C1: over any sequence of read_property calls the invoke-id allocated is in
\* 1..255: 0 is never issued (so the id issued after 255 is 1).
C1_InvokeIdNeverZero ==
    /\ \A k \in 1..Len(tick_calls) : tick_calls[k].invoke_id \in 1..(U8Modulus - 1)
    /\ \A k \in 1..Len(sent_log) :
         sent_log[k].apdu = "ConfirmedRequest" => sent_log[k].invoke_id \in 1..(U8Modulus - 1)

\* C2: no two confirmed requests that are both still outstanding (sent, and
\* no ReadPropertyAck with that invoke-id received yet) carry the same
\* invoke-id.
C2_OutstandingIdsDistinct ==
    \A id \in BagToSet(outstanding) : CopiesIn(id, outstanding) <= 1

(****************************** the sweep: C3 *******************************)
\* the calls a sweep has issued when the Poller is at poll_pc
CallsIssued ==
    CASE poll_pc = "alloc" -> poll_i - 1
      [] poll_pc = "send" -> poll_i
      [] OTHER -> Len(devices)

WellFormed(f) ==
    /\ f.rx = "ok"
    /\ ~f.empty
    /\ f.npdu = "ok"
    /\ f.has_apdu
    /\ f.apdu # "err"
    /\ f.body = "ok"

IsWhoIs(f) == f.apdu = "UnconfirmedRequest" /\ f.service = "WhoIs"
IsIAm(f) == f.apdu = "UnconfirmedRequest" /\ f.service = "IAm"
IsReadProperty(f) == f.apdu = "ConfirmedRequest" /\ f.service = "ReadProperty"
IsReadPropertyAck(f) == f.apdu = "ComplexAck" /\ f.service_u8 = 12

\* the receive loop, having received f, hands exactly one event of this type
\* to the channel's send, with f's source address and invoke-id
Emits(type, f) ==
    /\ rx_pc' = "send"
    /\ Len(produced') = Len(produced) + 1
    /\ SubSeq(produced', 1, Len(produced)) = produced
    /\ event_opt' = produced'[Len(produced')]
    /\ event_opt'.type = type
    /\ event_opt'.src = f.src
    /\ event_opt'.invoke_id = f.invoke_id
    /\ event_opt'.instance = f.instance
    /\ event_opt'.prop = f.prop

\* a step of the receive loop out of its receive attempt
ReceiveStep == rx_pc = "receive" /\ rx_pc' # "receive"

\* C4: a well-formed, non-network-layer frame whose APDU is a
\* ConfirmedRequest with service choice ReadProperty makes the receive loop
\* emit a ReadPropertyRequest event with the request's invoke-id and the
\* frame's source address.
C4_ReadPropertyRequestEmitted ==
    [][ReceiveStep =>
         \A f \in Frames :
           (WellFormed(f) /\ IsReadProperty(f) /\ RxReceiveFrame(f, MaxRxEvents))
              => Emits("ReadProperty", f)]_vars

\* C5: for a well-formed, non-network-layer frame the receive loop emits
\* exactly one event, by the table: UnconfirmedRequest/WhoIs a WhoIs event,
\* UnconfirmedRequest/IAm an IAm event, ComplexAck with service choice
\* ReadProperty a ReadPropertyAck event, each with the frame's source address
\* and the ReadPropertyAck with the ComplexAck's invoke-id.
C5_DispatchTable ==
    [][ReceiveStep =>
         \A f \in Frames :
           (WellFormed(f) /\ RxReceiveFrame(f, MaxRxEvents))
              => /\ IsWhoIs(f) => Emits("WhoIs", f)
                 /\ IsIAm(f) => Emits("IAm", f)
                 /\ IsReadPropertyAck(f) => Emits("ReadPropertyAck", f)]_vars

\* the loop is about to send the ReadPropertyAck event of an acknowledgment
\* with invoke-id 2 from a2
C5_Witness ==
    /\ rx_pc = "send"
    /\ event_opt.type = "ReadPropertyAck"
    /\ event_opt.invoke_id = 2
    /\ event_opt.src = "a2"
    /\ produced = <<event_opt>>

\* what the receive loop drops: a receive error, an empty or undecodable
\* datagram, a network-layer message, a PDU type or service choice outside
\* the table
Dropped(f) ==
    \/ f.rx = "err"
    \/ f.empty
    \/ f.npdu # "ok"
    \/ ~f.has_apdu
    \/ f.apdu = "err"
    \/ f.body = "err"
    \/ ~(IsWhoIs(f) \/ IsIAm(f) \/ IsReadProperty(f) \/ IsReadPropertyAck(f))

\* C6: for a receive error and for any frame that is empty, truncated,
\* undecodable, a network-layer message or outside the dispatch table, the
\* receive loop emits no event and does not terminate: it releases the lock,
\* sleeps and goes on to the next receive attempt.
C6_GarbageDropped ==
    [][ReceiveStep =>
         \A f \in Frames :
           (Dropped(f) /\ RxReceiveFrame(f, MaxRxEvents))
              => /\ produced' = produced
                 /\ chan' = chan
                 /\ event_opt' = None
                 /\ rx_pc' = "sleep"
                 /\ datalink' = "free"]_vars
    /\ [](rx_pc = "sleep" => ENABLED RxSleep)
    /\ [](rx_pc = "done" => rx_closed)

\* the loop is back at a receive attempt with nothing produced so far
C6_Witness ==
    rx_pc = "sleep" /\ produced = <<>> /\ datalink = "free"


(************************* the event channel: C7 - C9 ***********************)
\* C7: if the event consumer (the receiver end of the event channel) has
\* gone away, the receive loop eventually terminates.
C7_TerminatesOnceConsumerGone ==
    rx_closed ~> (rx_pc = "done")

\* C7, amended: the receive loop finds the channel closed only in a send:
\* with the consumer gone it terminates once it has an event to send (it is
\* blocked in the send, or a frame that dispatches to an event arrives), and
\* it terminates in no other way.
C7_TerminatesAtNextSend ==
    /\ (rx_closed /\ rx_pc = "send") ~> (rx_pc = "done")
    /\ [][rx_pc' = "done" /\ rx_pc # "done" => rx_closed /\ rx_pc = "send"]_vars
    /\ [](rx_closed /\ rx_pc \notin {"send", "done"} => ENABLED (RxLock \/ RxSleep \/ RxReceiveFrame(RecvError, MaxLiveEvents)))

\* the consumer is gone and the loop has terminated
C7_Witness ==
    rx_closed /\ rx_pc = "done" /\ Len(produced) > Len(delivered)

\* the events the channel holds or is about to take
InChannel ==
    chan \o (IF rx_pc = "send" THEN <<event_opt>> ELSE <<>>)

\* C8: the event channel never holds more than its capacity (100) of events
\* and no event is dropped: with the channel full the receive loop blocks,
\* and while the Bridge is alive every event the loop produced is delivered
\* to it exactly once, in the order the frames were received.
C8_BoundedLosslessFifo ==
    /\ Len(chan) <= 100
    /\ ~rx_closed =>
         /\ produced = delivered \o InChannel
         /\ \A k \in 1..Len(produced) : produced[k].n = k
         /\ (rx_pc = "send" /\ Len(chan) = 100) => ~ENABLED RxSend

\* the channel is full, the loop is blocked with one more event, and the
\* Bridge has taken events before
C8_Witness ==
    /\ Len(chan) = 100
    /\ rx_pc = "send"
    /\ ~rx_closed
    /\ Len(delivered) > 0
    /\ Len(produced) = Len(delivered) + 101

\* C9: a read_property (or discover) call that waits for the transport lock
\* waits for at most one receive attempt: the receive loop holds the lock
\* only for the duration of one receive_frame attempt, never while it is
\* blocked sending an event on a full channel.
C9_LockHeldOnlyWhileReceiving ==
    ~(/\ datalink = "rx"
      /\ rx_pc = "send"
      /\ Len(chan) = Capacity
      /\ ~rx_closed
      /\ poll_pc = "send")

(**************************** the IAm arm: C10 ******************************)
\* the publish attempts caused by the event of arrival position n, in order
PublishesFor(n) == SelectSeq(pub_log, LAMBDA p : p.cause = n)

\* a retained publish to <prefix>/sensor/bacnet_<i>/<leaf>
IsRetainedPublish(p, i, leaf) ==
    /\ p.topic = <<"homeassistant", "sensor", <<"bacnet_", i>>, leaf>>
    /\ p.retain

\* how far the Bridge is with the IAm event e
IAmDone(e) == cur # e \/ bridge_pc \in {"recv", "lookup", "pub_value"}

\* C10: for every IAm event (i, a) the Bridge performs, in this order and
\* before it handles the next event: the registry upsert (i, a); one
\* retained publish of the discovery configuration to
\* <prefix>/sensor/bacnet_<i>/config; one retained publish of "online" to
\* <prefix>/sensor/bacnet_<i>/state.
C10_IAmUpsertConfigOnline ==
    bridge_pc # "gone" =>
      /\ \A k \in 1..Len(delivered) :
           LET e == delivered[k]
               mine == PublishesFor(e.n)
           IN  e.type = "IAm" =>
                 /\ Len(mine) <= 2
                 /\ Len(mine) >= 1 =>
                      /\ IsRetainedPublish(mine[1], e.instance, "config")
                      /\ mine[1].payload.unique_id = <<"bacnet_", e.instance>>
                 /\ Len(mine) = 2 =>
                      /\ IsRetainedPublish(mine[2], e.instance, "state")
                      /\ mine[2].payload = "online"
                 /\ Len(mine) = (IF IAmDone(e) THEN 2
                                 ELSE IF bridge_pc = "pub_state" THEN 1 ELSE 0)
                 /\ (e = cur /\ bridge_pc # "upsert") =>
                      /\ e.instance \in DOMAIN discovered_devices
                      /\ discovered_devices[e.instance] = e.src
      /\ \A j, k \in 1..Len(pub_log) : j < k => pub_log[j].cause <= pub_log[k].cause

\* the Bridge has handled an IAm and is back at the channel
C10_Witness ==
    /\ bridge_pc = "recv"
    /\ cur.type = "IAm"
    /\ Len(PublishesFor(cur.n)) = 2
    /\ last_pub_ok = FALSE

(*********************** the discovery payload: C11 *************************)
\* the discovery payloads published for the event of arrival position n
ConfigPayloadsFor(n) ==
    { pub_log[k].payload : k \in { j \in 1..Len(pub_log) :
                                     /\ pub_log[j].cause = n
                                     /\ pub_log[j].topic[4] = "config" } }

\* C11: for an IAm event for device instance i, the discovery payload the
\* Bridge builds has unique_id "bacnet_<i>", state_topic
\* "<prefix>/sensor/bacnet_<i>/state" and device.identifiers the one-element
\* list ["bacnet_<i>"].
C11_DiscoveryPayloadIdentity ==
    \A k \in 1..Len(produced) :
      LET e == produced[k]
      IN  e.type = "IAm" =>
            \A payload \in ConfigPayloadsFor(k) :
              /\ payload.unique_id = <<"bacnet_", e.instance>>
              /\ payload.state_topic =
                   <<"homeassistant", "sensor", <<"bacnet_", e.instance>>, "state">>
              /\ payload.device.identifiers = << <<"bacnet_", e.instance>> >>

\* the discovery payload of an IAm of instance 2 has been published
C11_Witness ==
    \E k \in 1..Len(produced) :
      /\ produced[k].type = "IAm"
      /\ produced[k].instance = 2
      /\ ConfigPayloadsFor(k) # {}

(******************* the ReadPropertyAck arm: C12, C13 **********************)
\* an acknowledgment of present-value whose value decodes as a REAL
IsRealPresentValue(e) ==
    e.type = "ReadPropertyAck" /\ e.prop = 85 /\ e.real_ok

\* the instances registered at address a
RegisteredAt(a) ==
    {i \in DOMAIN discovered_devices : discovered_devices[i] = a}

\* the decimal string of a REAL with one fractional digit, given in tenths:
\* "24.5" for 245
Decimal(v) == <<v \div 10, ".", v % 10>>

\* C12: for a ReadPropertyAck event of present-value (85) whose value decodes
\* as a REAL v: if its source address is the registered address of some
\* instance, the Bridge issues exactly one retained state publish of the
\* decimal string of v to <prefix>/sensor/bacnet_<i>/state, i an instance
\* registered at the source address; if no instance is registered at the
\* source address, the Bridge publishes nothing for the event.
C12_AckPublishedForRegisteredSource ==
    (bridge_pc # "gone" /\ IsRealPresentValue(cur)) =>
       LET mine == PublishesFor(cur.n)
       IN  /\ bridge_pc \in {"lookup", "pub_value", "recv"}
           /\ bridge_pc = "lookup" => mine = <<>>
           /\ bridge_pc = "pub_value" =>
                 mine = <<>> /\ dev_id \in RegisteredAt(cur.src)
           /\ bridge_pc = "recv" =>
                 IF RegisteredAt(cur.src) = {}
                 THEN mine = <<>>
                 ELSE /\ Len(mine) = 1
                      /\ mine[1].retain
                      /\ mine[1].payload = Decimal(cur.value)
                      /\ \E i \in RegisteredAt(cur.src) :
                           mine[1].topic =
                             <<"homeassistant", "sensor", <<"bacnet_", i>>, "state">>

\* the value of an acknowledgment from a registered address has been
\* published
C12_Witness ==
    /\ bridge_pc = "recv"
    /\ IsRealPresentValue(cur)
    /\ RegisteredAt(cur.src) # {}
    /\ Len(PublishesFor(cur.n)) = 1

\* an acknowledgment of another property, or one whose value is no REAL
IsUnusableAck(e) ==
    e.type = "ReadPropertyAck" /\ (e.prop # 85 \/ ~e.real_ok)

\* the Bridge takes the event e from the channel
BridgeTakes(e) ==
    /\ bridge_pc = "recv"
    /\ chan # <<>>
    /\ e = Head(chan)
    /\ delivered' = Append(delivered, e)

\* C13: for a ReadPropertyAck event whose property identifier is not
\* present-value (85), or whose value does not decode as a REAL, the Bridge
\* publishes nothing and leaves the registry unchanged, and then continues
\* with the next event.
C13_UnusableAckIgnored ==
    /\ [][(BridgeTakes(cur') /\ IsUnusableAck(cur')) =>
            /\ pub_log' = pub_log
            /\ discovered_devices' = discovered_devices
            /\ bridge_pc' = "recv"]_vars
    /\ [](\A k \in 1..Len(pub_log) : ~IsUnusableAck(produced[pub_log[k].cause]))

\* the Bridge is back at the channel after an unusable acknowledgment from
\* the address of a registered device
C13_Witness ==
    /\ bridge_pc = "recv"
    /\ IsUnusableAck(cur)
    /\ RegisteredAt(cur.src) # {}
    /\ cur = delivered[Len(delivered)]

(************************** no responder role: C14 **************************)
\* a request of a peer: the events the Bridge only logs
IsPeerRequest(e) == e.type \in {"WhoIs", "ReadProperty"}

\* a Who-Is broadcast, as discover() sends it
IsWhoIsBroadcast(p) ==
    p.dest = "broadcast" /\ p.apdu = "UnconfirmedRequest" /\ p.service = "WhoIs"

\* a ReadProperty confirmed request, as read_property() sends it
IsReadPropertyRequest(p) ==
    p.dest \in Addrs /\ p.apdu = "ConfirmedRequest" /\ p.service = "ReadProperty"

\* the ReadPropertyRequest events a peer's request would be turned into
ReadPropertyEvents ==
    { Event("ReadProperty", ReadPropertyFrame(id, a), n) :
        id \in AckIds, a \in Addrs, n \in 1..MaxRegistryEvents }

\* C14: the gateway never acts as a responder: handling a WhoIs or a
\* ReadPropertyRequest event causes no publish, no registry change and no
\* BACnet transmission, and the only frames the gateway ever sends are Who-Is
\* broadcasts (discover) and ReadProperty confirmed requests (read_property).
C14_NeverResponds ==
    /\ [][(BridgeTakes(cur') /\ IsPeerRequest(cur')) =>
            /\ pub_log' = pub_log
            /\ discovered_devices' = discovered_devices
            /\ sent_log' = sent_log
            /\ bridge_pc' = "recv"]_vars
    /\ [](\A e \in ReadPropertyEvents : BridgeArm(e) = "recv")
    /\ [](\A k \in 1..Len(pub_log) : ~IsPeerRequest(produced[pub_log[k].cause]))
    /\ [](\A k \in 1..Len(sent_log) :
            IsWhoIsBroadcast(sent_log[k]) \/ IsReadPropertyRequest(sent_log[k]))

\* the Bridge has handled a Who-Is of a peer, after the gateway has sent its
\* own Who-Is and polled a device
C14_Witness ==
    /\ bridge_pc = "recv"
    /\ cur.type = "WhoIs"
    /\ cur = delivered[Len(delivered)]
    /\ \E j, k \in 1..Len(sent_log) :
         IsWhoIsBroadcast(sent_log[j]) /\ IsReadPropertyRequest(sent_log[k])

(*************************** the registry: C15 - C18 ************************)
\* the Bridge inserts (i, a) into the registry
Upserts(i, a) ==
    /\ bridge_pc = "upsert"
    /\ bridge_pc' # "upsert"
    /\ i = cur.instance
    /\ a = cur.src

\* C15: registry upsert is idempotent and last-write-wins: upserting an
\* (instance, address) pair the registry already holds leaves the registry as
\* it is, with the one entry for the instance; upserting a new address for an
\* existing instance replaces the prior address; every other instance's entry
\* is left unchanged.
C15_UpsertIdempotentLastWriteWins ==
    [][\A i \in Instances, a \in Addrs :
         Upserts(i, a) =>
           LET before == discovered_devices
               after == discovered_devices'
           IN  /\ DOMAIN after = DOMAIN before \cup {i}
               /\ after[i] = a
               /\ \A j \in DOMAIN before \ {i} : after[j] = before[j]
               /\ (i \in DOMAIN before /\ before[i] = a) => after = before
               /\ Upsert(after, i, a) = after]_vars

\* instance 1 has moved from a1 to a2 while instance 2 is registered
C15_Witness ==
    /\ bridge_pc = "pub_discovery"
    /\ Len(delivered) = 3
    /\ delivered[1].type = "IAm" /\ delivered[1].instance = 2
    /\ delivered[2].type = "IAm" /\ delivered[2].instance = 1
    /\ delivered[2].src = "a1"
    /\ delivered[3].type = "IAm" /\ delivered[3].instance = 1
    /\ delivered[3].src = "a2"
    /\ discovered_devices = [i \in {1, 2} |-> "a2"]

\* C16: the registry never evicts: once a device instance has been inserted
\* it is a key of the registry in every later state; the set of registered
\* instances only grows, over any sequence of events and Poller ticks.
C16_RegistryNeverEvicts ==
    [][DOMAIN discovered_devices \subseteq DOMAIN discovered_devices']_vars

\* two instances are registered after three IAm events and a polling sweep
C16_Witness ==
    /\ DOMAIN discovered_devices = {1, 2}
    /\ Len(delivered) = 3
    /\ bridge_pc = "recv"
    /\ nticks = 1
    /\ poll_pc = "tick"

\* C17: the registry is changed only by the Bridge's handling of an IAm
\* event: a Poller tick, the Bridge's ReadPropertyAck path, discover(),
\* read_property() and the receive loop all leave it unchanged.
C17_OnlyIAmWritesRegistry ==
    [][discovered_devices' # discovered_devices =>
         /\ cur.type = "IAm"
         /\ bridge_pc = "upsert"
         /\ cur' = cur
         /\ UNCHANGED <<main_pc, rx_pc, poll_pc, sent_log, invoke_id>>]_vars

\* one device is registered; discover() has run, the Poller has polled the
\* device and the Bridge has published the value it answered with
C17_Witness ==
    /\ discovered_devices = [i \in {1} |-> "a1"]
    /\ bridge_pc = "recv"
    /\ cur.type = "ReadPropertyAck"
    /\ Len(PublishesFor(cur.n)) = 1
    /\ nticks = 1
    /\ poll_pc = "tick"
    /\ Len(sent_log) = 2

\* C18: no registry lock is held during fan-out: the Poller has released the
\* read lock (having copied a snapshot) before it issues any read_property of
\* the sweep, the Bridge holds no registry lock while it publishes, and a
\* Bridge upsert is never blocked for the duration of a poll sweep.
C18_NoRegistryLockDuringFanOut ==
    /\ poll_pc \in {"alloc", "send"} => "poller" \notin registry_lock
    /\ bridge_pc \in {"pub_discovery", "pub_state", "pub_value"} =>
         registry_lock \cap {"bridge_read", "bridge_write"} = {}
    /\ bridge_pc = "upsert" => ENABLED BridgeUpsert

\* the Bridge is about to upsert while the Poller is in the middle of a
\* sweep over two devices
C18_Witness ==
    /\ bridge_pc = "upsert"
    /\ poll_pc = "send"
    /\ Len(devices) = 2
    /\ poll_i = 1

(************************ failed sends of the Poller: C19 *******************)
\* the send of the read_property call in progress fails
SendFails == poll_pc = "send" /\ poll_pc' # "send" /\ sent_log' = sent_log

\* the Poller starts a sweep
SweepStarts == poll_pc = "tick" /\ poll_pc' = "alloc"

\* the ReadProperty request with invoke-id id went out
Sent(id) ==
    \E k \in 1..Len(sent_log) :
      IsReadPropertyRequest(sent_log[k]) /\ sent_log[k].invoke_id = id

\* C19: a send failure of read_property for one device during a Poller tick
\* does not prevent the read_property calls for the remaining devices of the
\* same tick, and does not prevent any later tick from polling every device,
\* including the one whose send failed.
C19_SendFailureDoesNotStopPolling ==
    /\ [][SendFails =>
            /\ devices' = devices
            /\ poll_i' = poll_i + 1
            /\ poll_pc' = (IF poll_i < Len(devices) THEN "alloc" ELSE "tick")]_vars
    /\ [][SweepStarts =>
            { devices'[k] : k \in 1..Len(devices') } =
              { <<i, discovered_devices[i]>> : i \in DOMAIN discovered_devices }]_vars
    /\ []((poll_pc = "tick" /\ nticks >= 1) =>
            /\ Len(tick_calls) = Len(devices)
            /\ \A k \in 1..Len(devices) : tick_calls[k].target = devices[k][2])
    /\ []((poll_pc = "tick" /\ nticks < MaxRetryTicks) =>
            ENABLED PollTick(MaxRetryTicks))

\* two sweeps over two devices are done: the first send of the first sweep
\* failed, the second device of that sweep was polled all the same, and the
\* second sweep polled both devices
C19_Witness ==
    /\ poll_pc = "tick"
    /\ nticks = 2
    /\ Len(devices) = 2
    /\ Len(tick_calls) = 2
    /\ ~Sent(1)
    /\ Sent(2) /\ Sent(3) /\ Sent(4)

(******************************* discover: C20 ******************************)
\* main() calls discover()
DiscoverStep == main_pc = "discover" /\ main_pc' # "discover"

\* the Who-Is broadcasts among the datagrams sent
WhoIsBroadcastsSent ==
    SelectSeq(sent_log, LAMBDA p : p.dest = "broadcast" /\ p.service = "WhoIs")

\* C20: discover() changes no engine or bridge state: it sends exactly one
\* Who-Is broadcast (an unconfirmed request, NPDU expecting-reply = false) and
\* leaves the invoke-id counter, the registry and the event channel unchanged,
\* so that the state after any number of calls is the state without them.
C20_DiscoverOnlySends ==
    /\ [][DiscoverStep =>
            /\ \E p \in {sent_log'[Len(sent_log')]} :
                 /\ sent_log' = Append(sent_log, p)
                 /\ p.dest = "broadcast"
                 /\ p.apdu = "UnconfirmedRequest"
                 /\ p.service = "WhoIs"
                 /\ p.expecting_reply = FALSE
            /\ invoke_id' = invoke_id
            /\ discovered_devices' = discovered_devices
            /\ chan' = chan
            /\ UNCHANGED <<rx_pc, bridge_pc, poll_pc, datalink, rx_closed, event_opt,
                           registry_lock, cur, dev_id, devices, poll_i, cur_id,
                           produced, delivered, pub_log, last_pub_ok, outstanding,
                           tick_calls, nticks>>]_vars
    /\ [](Len(WhoIsBroadcastsSent) = (IF main_pc = "discover" THEN 0 ELSE 1))

\* discover() has run and the Poller has since taken invoke-ids: the first
\* request of the first sweep carries the counter's initial value
C20_Witness ==
    /\ main_pc = "serving"
    /\ Len(WhoIsBroadcastsSent) = 1
    /\ Sent(1)
    /\ invoke_id = 3

(*************************** failed publishes: C21 **************************)
\* a publish attempt of the Bridge fails
PublishFails == pub_log' # pub_log /\ last_pub_ok' = FALSE

\* the publish attempts an event requires of the Bridge once it is done with
\* the event
PublishesRequired(e) ==
    CASE e.type = "IAm" -> 2
      [] IsRealPresentValue(e) -> IF RegisteredAt(e.src) = {} THEN 0 ELSE 1
      [] OTHER -> 0

\* C21: a failed telemetry publish is not retried and does not stop the
\* Bridge: each publish required by an event is attempted exactly once, and
\* after a failure the Bridge goes on to the remaining publish of the same
\* event (the "online" state after a failed discovery publish) and to the
\* next event.
C21_FailedPublishNotRetried ==
    /\ [][PublishFails =>
            /\ Len(pub_log') = Len(pub_log) + 1
            /\ bridge_pc' = (IF bridge_pc = "pub_discovery" THEN "pub_state" ELSE "recv")]_vars
    /\ [](\A j, k \in 1..Len(pub_log) :
            (j < k /\ pub_log[j].cause = pub_log[k].cause) =>
               pub_log[j].topic # pub_log[k].topic)
    /\ []((bridge_pc = "recv" /\ cur # None) =>
            Len(PublishesFor(cur.n)) = PublishesRequired(cur))
    /\ [](bridge_pc = "pub_state" => ENABLED BridgePublishOnline(BOOLEAN))
    /\ []((bridge_pc = "recv" /\ chan # <<>>) => ENABLED BridgeRecv)

\* the discovery publish of the second event has just failed; the Bridge is
\* at the "online" publish of that event
C21_Witness ==
    /\ bridge_pc = "pub_state"
    /\ last_pub_ok = FALSE
    /\ Len(delivered) = 2
    /\ Len(pub_log) = 3

(*************************** polling goes on: C22 ***************************)
\* every device of the sweep's snapshot has been sent the request of its call
SweepSent ==
    /\ Len(tick_calls) = Len(devices)
    /\ \A k \in 1..Len(devices) :
         \E j \in 1..Len(sent_log) :
           /\ IsReadPropertyRequest(sent_log[j])
           /\ sent_log[j].dest = devices[k][2]
           /\ sent_log[j].invoke_id = tick_calls[k].invoke_id

ValuePublishes ==
    { k \in 1..Len(pub_log) : produced[pub_log[k].cause].type = "ReadPropertyAck" }

\* the state topic keyed by x
StateTopicOf(x) == <<"homeassistant", "sensor", <<"bacnet_", x>>, "state">>

\* the publish attempt at position j is the discovery configuration of
\* instance i
IsConfigOf(j, i) ==
    /\ pub_log[j].topic = <<"homeassistant", "sensor", <<"bacnet_", i>>, "config">>
    /\ pub_log[j].payload.unique_id = <<"bacnet_", i>>

\* C23: one identity key per device: every state value the Bridge publishes
\* for a ReadPropertyAck goes to a topic keyed by a registered device
\* instance, which is the state topic announced as state_topic in that
\* instance's discovery configuration; no state is ever published to a topic
\* keyed by the raw source address.
C23_OneIdentityKey ==
    /\ \A k \in ValuePublishes :
         \E i \in DOMAIN discovered_devices :
           /\ pub_log[k].topic = StateTopicOf(i)
           /\ \E j \in 1..(k - 1) :
                IsConfigOf(j, i) /\ pub_log[j].payload.state_topic = pub_log[k].topic
    /\ \A k \in 1..Len(pub_log) :
         \A a \in Addrs :
           pub_log[k].topic[3] # <<"bacnet_", IpOf(a)>>

\* the value of an acknowledgment from a1 has been published under
\* instance 2, which is registered at a1
C23_Witness ==
    \E k \in ValuePublishes :
      /\ produced[pub_log[k].cause].src = "a1"
      /\ pub_log[k].topic = StateTopicOf(2)
      /\ discovered_devices = [i \in {2} |-> "a1"]

\* the publish attempt at position j is the "online" state of instance i
IsOnlineOf(j, i) ==
    /\ produced[pub_log[j].cause].type = "IAm"
    /\ pub_log[j].topic = StateTopicOf(i)
    /\ pub_log[j].payload = "online"

\* C24: every publish of a numeric present-value to
\* <prefix>/sensor/bacnet_<i>/state is preceded, in the Bridge's sequence of
\* publish attempts, by a publish attempt of the discovery configuration for
\* instance i and of the state "online" for instance i.
C24_ValueAfterAnnouncement ==
    \A k \in ValuePublishes :
      \A i \in Instances :
        pub_log[k].topic = StateTopicOf(i) =>
          /\ \E j \in 1..(k - 1) : IsConfigOf(j, i)
          /\ \E j \in 1..(k - 1) : IsOnlineOf(j, i)

\* the third publish attempt is a present-value, after the discovery
\* configuration and "online"
C24_Witness ==
    /\ Len(pub_log) = 3
    /\ 3 \in ValuePublishes
    /\ pub_log[3].payload = <<24, ".", 5>>

(********************* invoke-ids and correlation: C25, C26 *****************)
\* the invoke-ids an acknowledgment can carry
InvokeIds == 0..(U8Modulus - 1)

\* the sequences of publishes the Bridge can make for the event e with the
\* registry r
PublishesOf(e, r) ==
    IF BridgeArm(e) = "lookup"
    THEN IF ReverseLookup(r, e.src) = {}
         THEN { <<>> }
         ELSE { << [topic |-> StateTopic(UniqueId(i)), payload |-> F32ToString(e.value)] >> :
                  i \in ReverseLookup(r, e.src) }
    ELSE { <<>> }

\* topic and payload of the publishes made for the event of arrival position n
Published(n) ==
    [k \in 1..Len(PublishesFor(n)) |->
       [topic |-> PublishesFor(n)[k].topic, payload |-> PublishesFor(n)[k].payload]]

\* C25: what the Bridge publishes for a ReadPropertyAck event is independent
\* of the event's invoke-id: the publishes it makes, and the registry, are
\* what they would be for any other invoke-id, one that read_property never
\* issued or issued to a different device included.
C25_AckBridgedWhateverItsInvokeId ==
    /\ []((bridge_pc \in {"recv", "lookup", "pub_value"} /\ cur.type = "ReadPropertyAck") =>
            /\ \A id \in InvokeIds :
                 /\ BridgeArm([cur EXCEPT !.invoke_id = id]) = BridgeArm(cur)
                 /\ PublishesOf([cur EXCEPT !.invoke_id = id], discovered_devices)
                      = PublishesOf(cur, discovered_devices)
            /\ bridge_pc = "recv" => Published(cur.n) \in PublishesOf(cur, discovered_devices))
    /\ [][(cur.type = "ReadPropertyAck" /\ bridge_pc \in {"lookup", "pub_value"}) =>
            discovered_devices' = discovered_devices]_vars

\* the value of an acknowledgment with invoke-id 1 from a1 has been
\* published, while the only request sent, with invoke-id 1, went to a2
C25_Witness ==
    /\ bridge_pc = "recv"
    /\ cur.type = "ReadPropertyAck"
    /\ cur.invoke_id = 1
    /\ cur.src = "a1"
    /\ Len(PublishesFor(cur.n)) = 1
    /\ Len(sent_log) = 2
    /\ sent_log[2].dest = "a2"
    /\ sent_log[2].invoke_id = 1

(***************************** the test responder ***************************)
\* Device::new(99999, "Test Responder")
ResponderInstance == 99999
\* current_value: 24.5, in tenths
ResponderValue == 245
\* the address the responder's socket is bound to, and the gateway's
ResponderAddr == "a1"
GatewayAddr == "gateway"

\* the I-Am of the responder's device
ResponderIAm == IAmFrame(ResponderInstance, ResponderAddr)

\* faulty variant: the ComplexAck carries invoke-id 0 instead of the request's
ResponderAnswersWithoutEcho(req, source_addr) ==
    CASE req.apdu = "UnconfirmedRequest" /\ req.service = "WhoIs" ->
           { [dest |-> "broadcast", frame |-> ResponderIAm] }
      [] req.apdu = "ConfirmedRequest" /\ req.service = "ReadProperty" ->
           { [dest |-> source_addr,
              frame |-> AckFrame(0, ResponderAddr, PresentValue, TRUE, ResponderValue)] }
      [] OTHER -> {}

\* the datagrams the responder sends on the datagram req received from
\* source_addr: an I-Am broadcast on a Who-Is; on a ReadProperty
\* ConfirmedRequest one ComplexAck (ReadProperty, AnalogInput 0, property 85,
\* REAL current_value) with the request's invoke_id, unicast to source_addr
ResponderAnswers(req, source_addr) ==
    CASE req.apdu = "UnconfirmedRequest" /\ req.service = "WhoIs" ->
           { [dest |-> "broadcast", frame |-> ResponderIAm] }
      [] req.apdu = "ConfirmedRequest" /\ req.service = "ReadProperty" ->
           { [dest |-> source_addr,
              frame |-> AckFrame(req.invoke_id, ResponderAddr, PresentValue, TRUE,
                                 ResponderValue)] }
      [] OTHER -> {}

\* the datagrams of the gateway that reach the responder and that it has not
\* answered yet, or answers whenever it gets them (Who-Is)
ResponderInbox ==
    { k \in 1..Len(sent_log) :
        /\ sent_log[k].dest \in {ResponderAddr, "broadcast"}
        /\ sent_log[k].apdu = "ConfirmedRequest" => BagIn(sent_log[k].invoke_id, outstanding) }

\* what receive_frame() of the gateway may return when the only peer is the
\* responder: nothing, the I-Am of POST /iam, or an answer of the responder
\* addressed to the gateway; answers may be late, out of order or lost
ResponderFrames ==
    {RecvError, ResponderIAm}
    \cup { a.frame : a \in { b \in UNION { ResponderAnswers(sent_log[k], GatewayAddr) :
                                              k \in ResponderInbox } :
                               b.dest \in {GatewayAddr, "broadcast"} } }

\* the gateway and the test responder alone on the network
NextResponder ==
    \/ Discover(BOOLEAN)
    \/ Start
    \/ RxLock
    \/ RxReceive(ResponderFrames, MaxResponderEvents)
    \/ RxSend
    \/ RxSleep
    \/ BridgeRecv
    \/ BridgeUpsert
    \/ BridgePublishDiscovery({TRUE})
    \/ BridgePublishOnline({TRUE})
    \/ BridgeLookup
    \/ BridgePublishValue({TRUE})
    \/ PollTick(MaxResponderTicks)
    \/ PollAlloc
    \/ PollSend(BOOLEAN)

SpecResponder == Init /\ [][NextResponder]_vars

\* the ReadProperty requests sent to address a with invoke-id id
RequestsSent(id, a) ==
    { j \in 1..Len(sent_log) :
        /\ sent_log[j].apdu = "ConfirmedRequest"
        /\ sent_log[j].service = "ReadProperty"
        /\ sent_log[j].invoke_id = id
        /\ sent_log[j].dest = a }

\* the ReadPropertyAck events derived from datagrams of address a with
\* invoke-id id
AcksDerived(id, a) ==
    { k \in 1..Len(produced) :
        /\ produced[k].type = "ReadPropertyAck"
        /\ produced[k].invoke_id = id
        /\ produced[k].src = a }

\* C26: with the test responder as the peer, the invoke-id read_property
\* returns is the one in the ConfirmedRequest it sends, the responder answers
\* each such request with one ComplexAck that echoes it, and so every
\* ReadPropertyAck event the gateway derives carries the invoke-id that
\* read_property returned for a request sent to the event's source, with at
\* most one such event per request.
C26_AckCarriesReturnedInvokeId ==
    /\ [][(poll_pc = "send" /\ sent_log' # sent_log) =>
            /\ sent_log' = Append(sent_log, sent_log'[Len(sent_log')])
            /\ sent_log'[Len(sent_log')].invoke_id = cur_id
            /\ sent_log'[Len(sent_log')].apdu = "ConfirmedRequest"
            /\ tick_calls[Len(tick_calls)].invoke_id = cur_id
            /\ tick_calls[Len(tick_calls)].target = sent_log'[Len(sent_log')].dest]_vars
    /\ [](\A k \in 1..Len(produced) :
            produced[k].type = "ReadPropertyAck" =>
              /\ RequestsSent(produced[k].invoke_id, produced[k].src) # {}
              /\ Cardinality(AcksDerived(produced[k].invoke_id, produced[k].src))
                   <= Cardinality(RequestsSent(produced[k].invoke_id, produced[k].src)))

\* two requests were sent, invoke-ids 1 and 2, and the responder's answers
\* arrived in the opposite order; both values have been published
C26_Witness ==
    /\ Len(produced) = 3
    /\ produced[2].type = "ReadPropertyAck" /\ produced[2].invoke_id = 2
    /\ produced[3].type = "ReadPropertyAck" /\ produced[3].invoke_id = 1
    /\ Len(delivered) = 3
    /\ bridge_pc = "recv"
    /\ Len(PublishesFor(3)) = 1

====
